---- MODULE Spec2Model ----
(***************************************************************************)
(* Model of the Gaussian mixture model of src/cmmS1/colorHis.h: the        *)
(* parameter buffer (coefs, mean, cov), the derived cache (inverseCovs,    *)
(* covDeterms), the learning accumulators (sums, prods, sampleCounts,      *)
(* totalSampleCount) and the operations on them.                           *)
(*                                                                         *)
(* Arithmetic.  The source computes in double.  The model computes in      *)
(* exact rationals <<n, d>> (d > 0, lowest terms) over sample colours      *)
(* with small integer channels, for which every sum, product and           *)
(* quotient below is exactly representable as such a rational.  The two    *)
(* places where double rounding decides a branch on the values the model   *)
(* reaches are modelled as the double computation decides them             *)
(* (AtOrBelowFloor).  sqrt and exp, which have no rational value, are      *)
(* computed in fixed point (InvSqrt, ExpNeg).                              *)
(***************************************************************************)
EXTENDS Integers, Sequences, FiniteSets, Bags, TLC

(***************************************************************************)
(* Bounds of the model.                                                    *)
(***************************************************************************)
MaxSamples == 4      \* addSample calls in one run of the life cycle
MaxCalls   == 2      \* addSample calls of one thread in the concurrent run

(***************************************************************************)
(* Program constants.                                                      *)
(***************************************************************************)
componentsCount == 5
Comp == 0 .. (componentsCount - 1)
Dim  == 0 .. 2
Flat == 0 .. 8

(***************************************************************************)
(* double arithmetic, as exact rationals.                                  *)
(***************************************************************************)
Abs(a) == IF a < 0 THEN -a ELSE a

RECURSIVE Gcd(_, _)
Gcd(a, b) == IF b = 0 THEN a ELSE Gcd(b, a % b)

Norm(n, d) ==
    LET g == Gcd(Abs(n), Abs(d))
        s == IF d < 0 THEN -1 ELSE 1
    IN  IF n = 0 THEN <<0, 1>> ELSE <<s * (n \div g), s * (d \div g)>>

FromInt(i) == <<i, 1>>
Zero == <<0, 1>>
One  == <<1, 1>>

RMul(x, y) ==
    LET g1 == Gcd(Abs(x[1]), y[2])
        g2 == Gcd(Abs(y[1]), x[2])
    IN  IF x[1] = 0 \/ y[1] = 0 THEN Zero
        ELSE <<(x[1] \div g1) * (y[1] \div g2), (x[2] \div g2) * (y[2] \div g1)>>

RAdd(x, y) ==
    LET g == Gcd(x[2], y[2])
        l == (x[2] \div g) * y[2]
    IN  Norm(x[1] * (l \div x[2]) + y[1] * (l \div y[2]), l)

RNeg(x) == <<-x[1], x[2]>>
RSub(x, y) == RAdd(x, RNeg(y))
RInv(x) == IF x[1] < 0 THEN <<-x[2], -x[1]>> ELSE <<x[2], x[1]>>
RLt(x, y) == RSub(x, y)[1] < 0
RLe(x, y) == RSub(x, y)[1] <= 0
RGt(x, y) == RLt(y, x)

(***************************************************************************)
(* x > std::numeric_limits<double>::epsilon(), epsilon being 2^-52:        *)
(* n/d > 2^-52  iff  d < n * 2^52  iff  floor(d / 2^52) < n.               *)
(***************************************************************************)
EpsRoot == 67108864
GtEpsilon(x) == ((x[2] \div EpsRoot) \div EpsRoot) < x[1]

(***************************************************************************)
(* dtrm <= 1e-6.  The double literal 1e-6 lies below 10^-6, and the double *)
(* literal 0.01 above 1/100 (their product 0.01*(0.01*0.01) evaluates to   *)
(* 1.0000000000000002e-06), so the one tie of exact arithmetic, the        *)
(* determinant of diag(0.01, 0.01, 0.01), is above the floor in double.    *)
(***************************************************************************)
DetFloor == <<1, 1000000>>
AtOrBelowFloor(dtrm) == RLt(dtrm, DetFloor)


(***************************************************************************)
(* Inputs.  A colour is a Vec3d, here with integer channels.  The four     *)
(* sample colours are affinely independent, so that a component that       *)
(* receives all four has a covariance of full rank (no regularization),    *)
(* and every smaller set gives a singular one (regularization).            *)
(***************************************************************************)
Vec3(a, b, c) == [i \in Dim |-> IF i = 0 THEN a ELSE IF i = 1 THEN b ELSE c]
ColorSeq == <<Vec3(0, 0, 0), Vec3(1, 0, 0), Vec3(0, 1, 0), Vec3(0, 0, 1)>>
Colors == {ColorSeq[i] : i \in 1 .. Len(ColorSeq)}
\* the colours the density evaluator is asked about
QueryColors == Colors \cup {Vec3(1, 1, 1)}
\* the components the caller assigns samples to
TargetComps == {1, 3}
\* what an uninitialized double or int member may hold
Indeterminate == {0, 3}

VARIABLES
    coefs,              \* parameter buffer: coefs[ci], the weight
    mean,               \* parameter buffer: mean[ci][0..2]
    cov,                \* parameter buffer: cov[ci][0..8], row major
    inverseCovs,        \* cache: inverseCovs[ci][r][c]
    covDeterms,         \* cache: covDeterms[ci]
    sums,               \* accumulator: sums[ci][0..2]
    prods,              \* accumulator: prods[ci][r][c]
    sampleCounts,       \* accumulator: sampleCounts[ci]
    totalSampleCount,   \* accumulator
    inverseCovs2,       \* cache of a second GMM built on the same buffer
    covDeterms2,        \* cache of a second GMM built on the same buffer
    phase,              \* the caller's position in Constructed (BeginPass AddSample* EndPass)*
    op,                 \* the operation that ran last
    arg,                \* its arguments, where a property needs them
    passSamples,        \* history: the bag of <<ci, color>> added since the last initLearning
    before,             \* history: what the evaluator returned when the pass started
    added,              \* number of addSample calls so far (bounded by MaxSamples)
    threads             \* concurrent run: each thread's position, arguments and register

vars == <<coefs, mean, cov, inverseCovs, covDeterms, sums, prods, sampleCounts,
          totalSampleCount, inverseCovs2, covDeterms2, phase, op, arg,
          passSamples, before, added, threads>>

params == <<coefs, mean, cov>>
cache  == <<inverseCovs, covDeterms>>
cache2 == <<inverseCovs2, covDeterms2>>
accum  == <<sums, prods, sampleCounts, totalSampleCount>>

Fill3(v)  == [i \in Dim |-> v]
Fill33(v) == [r \in Dim |-> [c \in Dim |-> v]]
Fill9(v)  == [i \in Flat |-> v]

(***************************************************************************)
(* The determinant of the stored covariance c[0..8] by cofactor expansion  *)
(* along the first row.                                                    *)
(***************************************************************************)
Determinant(c) ==
    RAdd(RSub(RMul(c[0], RSub(RMul(c[4], c[8]), RMul(c[5], c[7]))),
              RMul(c[1], RSub(RMul(c[3], c[8]), RMul(c[5], c[6])))),
         RMul(c[2], RSub(RMul(c[3], c[7]), RMul(c[4], c[6]))))

(***************************************************************************)
(* The adjugate divided by the determinant, entry [r][c] as the source     *)
(* assigns inverseCovs[ci][r][c].                                          *)
(***************************************************************************)
Inverse(c, dtrm) ==
    LET inv_dtrm == RInv(dtrm)
        m(a, b, d, e) == RSub(RMul(c[a], c[b]), RMul(c[d], c[e]))
    IN  [r \in Dim |-> [k \in Dim |->
            CASE r = 0 /\ k = 0 -> RMul(m(4, 8, 5, 7), inv_dtrm)
              [] r = 1 /\ k = 0 -> RMul(RNeg(m(3, 8, 5, 6)), inv_dtrm)
              [] r = 2 /\ k = 0 -> RMul(m(3, 7, 4, 6), inv_dtrm)
              [] r = 0 /\ k = 1 -> RMul(RNeg(m(1, 8, 2, 7)), inv_dtrm)
              [] r = 1 /\ k = 1 -> RMul(m(0, 8, 2, 6), inv_dtrm)
              [] r = 2 /\ k = 1 -> RMul(RNeg(m(0, 7, 1, 6)), inv_dtrm)
              [] r = 0 /\ k = 2 -> RMul(m(1, 5, 2, 4), inv_dtrm)
              [] r = 1 /\ k = 2 -> RMul(RNeg(m(0, 5, 2, 3)), inv_dtrm)
              [] OTHER          -> RMul(m(0, 4, 1, 3), inv_dtrm)]]

\* mutant: the noise is added to c[0] only
AddWhiteNoiseFirstOnly(c, singularFix) ==
    [i \in Flat |-> IF i = 0 THEN RAdd(c[i], singularFix) ELSE c[i]]

(***************************************************************************)
(* c[0] += singularFix; c[4] += singularFix; c[8] += singularFix           *)
(***************************************************************************)
AddWhiteNoise(c, singularFix) ==
    [i \in Flat |-> IF i \in {0, 4, 8} THEN RAdd(c[i], singularFix) ELSE c[i]]

\* mutant: the determinant is not tested
NeedsFixAlways(dtrm, singularFix) == RGt(singularFix, Zero)

\* dtrm <= 1e-6 && singularFix > 0
NeedsFix(dtrm, singularFix) == AtOrBelowFloor(dtrm) /\ RGt(singularFix, Zero)

\* mutant: covDeterms[ci] is assigned before the noise is added
calcStaleDeterminant(m, ci, singularFix) ==
    IF ~ RGt(m.coefs[ci], Zero) THEN m
    ELSE
        LET c0    == m.cov[ci]
            fix   == NeedsFix(Determinant(c0), singularFix)
            c     == IF fix THEN AddWhiteNoise(c0, singularFix) ELSE c0
            dtrm  == Determinant(c)
        IN  IF ~ GtEpsilon(dtrm)
            THEN [m EXCEPT !.cov[ci] = c, !.covDeterms[ci] = Determinant(c0),
                           !.failed = TRUE]
            ELSE [m EXCEPT !.cov[ci] = c, !.covDeterms[ci] = Determinant(c0),
                           !.inverseCovs[ci] = Inverse(c, dtrm)]

(***************************************************************************)
(* GMM::calcInverseCovAndDeterm on a model value                           *)
(*   m = [coefs, mean, cov, inverseCovs, covDeterms, failed].              *)
(* failed records that a CV_Assert threw: covDeterms[ci] is already        *)
(* written then, the inverse is not.                                       *)
(***************************************************************************)
calcInverseCovAndDeterm(m, ci, singularFix) ==
    IF ~ RGt(m.coefs[ci], Zero) THEN m
    ELSE
        LET c0    == m.cov[ci]
            fix   == NeedsFix(Determinant(c0), singularFix)
            c     == IF fix THEN AddWhiteNoise(c0, singularFix) ELSE c0
            dtrm  == Determinant(c)
        IN  IF ~ GtEpsilon(dtrm)
            THEN [m EXCEPT !.cov[ci] = c, !.covDeterms[ci] = dtrm, !.failed = TRUE]
            ELSE [m EXCEPT !.cov[ci] = c, !.covDeterms[ci] = dtrm,
                           !.inverseCovs[ci] = Inverse(c, dtrm)]

(***************************************************************************)
(* The singularFix arguments of the two callers.                           *)
(***************************************************************************)
ConstructFix   == Zero            \* calcInverseCovAndDeterm(ci, 0.0)
EndLearningFix == <<1, 100>>      \* calcInverseCovAndDeterm(ci, 0.01)

\* mutant: n / totalSampleCount without the cast, an integer division
WeightIntegerDivision(n, total) == FromInt(n \div total)

\* coefs[ci] = (double)n / totalSampleCount
Weight(n, total) == Norm(n, total)

\* m[k] = sums[ci][k] * inv_n
MeanOf(s, inv_n) == [k \in Dim |-> RMul(FromInt(s[k]), inv_n)]

\* c[3r+k] = prods[ci][r][k] * inv_n - m[r] * m[k]
CovOf(p, inv_n, m) ==
    [i \in Flat |-> RSub(RMul(FromInt(p[i \div 3][i % 3]), inv_n),
                         RMul(m[i \div 3], m[i % 3]))]

\* mutant: CV_Assert(totalSampleCount > 0) ahead of the test of n
endLearningStepAssertFirst(m, ci) ==
    LET n == sampleCounts[ci] IN
    IF ~ (totalSampleCount > 0) THEN [m EXCEPT !.failed = TRUE]
    ELSE IF n = 0 THEN [m EXCEPT !.coefs[ci] = Zero]
    ELSE
        LET inv_n == RInv(FromInt(n))
            mu    == MeanOf(sums[ci], inv_n)
            m1    == [m EXCEPT !.coefs[ci] = Weight(n, totalSampleCount),
                               !.mean[ci]  = mu,
                               !.cov[ci]   = CovOf(prods[ci], inv_n, mu)]
        IN  calcInverseCovAndDeterm(m1, ci, EndLearningFix)

(***************************************************************************)
(* The body of the loop of GMM::endLearning for component ci.              *)
(***************************************************************************)
endLearningStep(m, ci) ==
    LET n == sampleCounts[ci] IN
    IF n = 0 THEN [m EXCEPT !.coefs[ci] = Zero]
    ELSE IF ~ (totalSampleCount > 0) THEN [m EXCEPT !.failed = TRUE]
    ELSE
        LET inv_n == RInv(FromInt(n))
            mu    == MeanOf(sums[ci], inv_n)
            m1    == [m EXCEPT !.coefs[ci] = Weight(n, totalSampleCount),
                               !.mean[ci]  = mu,
                               !.cov[ci]   = CovOf(prods[ci], inv_n, mu)]
        IN  calcInverseCovAndDeterm(m1, ci, EndLearningFix)

\* for (int ci = 0; ci < componentsCount; ci++), left by a throwing CV_Assert
RECURSIVE endLearningLoop(_, _)
endLearningLoop(m, ci) ==
    IF ci = componentsCount \/ m.failed THEN m
    ELSE endLearningLoop(endLearningStep(m, ci), ci + 1)

\* mutant: the loop ends at the first component of weight 0
RECURSIVE constructLoopBreaks(_, _)
constructLoopBreaks(m, ci) ==
    IF ci = componentsCount \/ m.failed \/ ~ RGt(m.coefs[ci], Zero) THEN m
    ELSE constructLoopBreaks(calcInverseCovAndDeterm(m, ci, ConstructFix), ci + 1)

\* the constructor's loop: if (coefs[ci] > 0) calcInverseCovAndDeterm(ci, 0.0)
RECURSIVE constructLoop(_, _)
constructLoop(m, ci) ==
    IF ci = componentsCount \/ m.failed THEN m
    ELSE constructLoop(calcInverseCovAndDeterm(m, ci, ConstructFix), ci + 1)

Model(ic, cd) ==
    [coefs |-> coefs, mean |-> mean, cov |-> cov,
     inverseCovs |-> ic, covDeterms |-> cd, failed |-> FALSE]

(***************************************************************************)
(* sqrt and exp in fixed point.                                            *)
(*   InvSqrt(x) = floor(sqrt(floor(1/x))), for 1.0f / sqrt(x), x > 0.      *)
(*   ExpNeg(x)  = exp(-x) in units of 1/ExpScale, computed as 2^(-y) with  *)
(*   y = x * 3/2 (3/2 for log2(e)), 2^(-k) by halving and the fractional   *)
(*   part by linear interpolation in 1/16ths.  Monotone in x, equal to     *)
(*   ExpScale at 0, and 0 (underflow) from y = ExpBits + 1 on.             *)
(***************************************************************************)
ExpBits  == 12
ExpScale == 2 ^ ExpBits

RECURSIVE SqrtSearch(_, _, _)
SqrtSearch(n, lo, hi) ==
    IF lo = hi THEN lo
    ELSE LET mid == (lo + hi + 1) \div 2
         IN  IF mid * mid <= n THEN SqrtSearch(n, mid, hi)
             ELSE SqrtSearch(n, lo, mid - 1)

ISqrt(n) == SqrtSearch(n, 0, 32768)

InvSqrt(x) == ISqrt(x[2] \div x[1])

ExpNeg(x) ==
    LET y  == RMul(x, <<3, 2>>)
        k  == y[1] \div y[2]
        fq == ((y[1] % y[2]) * 16) \div y[2]
    IN  IF k > ExpBits THEN 0
        ELSE (ExpScale * (32 - fq)) \div (32 * (2 ^ k))

(***************************************************************************)
(* GMM::operator()(int ci, const Vec3d color), on the cache (ic, cd) of    *)
(* the instance asked.  AssertFailed stands for the exception of           *)
(* CV_Assert(covDeterms[ci] > epsilon).                                    *)
(***************************************************************************)
AssertFailed == -1

Mahalanobis(diff, ic) ==
    LET row(k) == RAdd(RAdd(RMul(diff[0], ic[0][k]), RMul(diff[1], ic[1][k])),
                       RMul(diff[2], ic[2][k]))
    IN  RAdd(RAdd(RMul(diff[0], row(0)), RMul(diff[1], row(1))), RMul(diff[2], row(2)))

DensityOn(ic, cd, ci, color) ==
    IF ~ RGt(coefs[ci], Zero) THEN 0
    ELSE IF ~ GtEpsilon(cd[ci]) THEN AssertFailed
    ELSE
        LET diff == [k \in Dim |-> RSub(FromInt(color[k]), mean[ci][k])]
            mult == Mahalanobis(diff, ic[ci])
        IN  InvSqrt(cd[ci]) * ExpNeg(RMul(<<1, 2>>, mult))

ComponentDensity(ci, color) == DensityOn(inverseCovs, covDeterms, ci, color)

(***************************************************************************)
(* GMM::operator()(const Vec3d color): the sum of coefs[ci] * density(ci). *)
(***************************************************************************)
RECURSIVE MixtureLoop(_, _, _)
MixtureLoop(color, ci, res) ==
    IF ci = componentsCount THEN res
    ELSE MixtureLoop(color, ci + 1,
                     RAdd(res, RMul(coefs[ci], FromInt(ComponentDensity(ci, color)))))

MixtureDensity(color) == MixtureLoop(color, 0, Zero)

\* mutant: if (p >= max)
BetterOrEqual(p, max) == p >= max

(***************************************************************************)
(* GMM::whichComponent: the scan with k = 0, max = 0 and  if (p > max).    *)
(***************************************************************************)
\* p > max
Better(p, max) == p > max

RECURSIVE whichLoop(_, _, _, _)
whichLoop(color, ci, k, max) ==
    IF ci = componentsCount THEN k
    ELSE LET p == ComponentDensity(ci, color)
         IN  IF Better(p, max) THEN whichLoop(color, ci + 1, ci, p)
             ELSE whichLoop(color, ci + 1, k, max)

whichComponent(color) == whichLoop(color, 0, 0, 0)

\* what the three evaluator functions return, for every colour asked
DensityTable ==
    [color \in QueryColors |->
        <<[ci \in Comp |-> ComponentDensity(ci, color)],
          MixtureDensity(color), whichComponent(color)>>]

(***************************************************************************)
(* GMM::GMM on an empty _model: the buffer is created and zero filled, no  *)
(* weight is positive, totalSampleCount = 0.  The cache and the other      *)
(* accumulators are not initialized.                                       *)
(***************************************************************************)
Init ==
    /\ coefs = [ci \in Comp |-> Zero]
    /\ mean  = [ci \in Comp |-> Fill3(Zero)]
    /\ cov   = [ci \in Comp |-> Fill9(Zero)]
    /\ \E g \in Indeterminate :
          /\ inverseCovs = [ci \in Comp |-> Fill33(FromInt(g))]
          /\ covDeterms  = [ci \in Comp |-> FromInt(g)]
    /\ \E g \in Indeterminate :
          /\ sums         = [ci \in Comp |-> Fill3(g)]
          /\ prods        = [ci \in Comp |-> Fill33(g)]
          /\ sampleCounts = [ci \in Comp |-> g]
    /\ totalSampleCount = 0
    /\ inverseCovs2 = <<>>
    /\ covDeterms2  = <<>>
    /\ phase = "Constructed"
    /\ op = "GMM"
    /\ arg = <<>>
    /\ passSamples = EmptyBag
    /\ before = <<>>
    /\ added = 0
    /\ threads = <<>>

(***************************************************************************)
(* GMM::GMM on the parameter buffer of this model: a second instance that  *)
(* aliases the buffer and computes its own cache, with no singularity      *)
(* correction, for the components of positive weight.  A run ends with it: *)
(* what the first instance does next is explored from the state before.    *)
(***************************************************************************)
Construct2 ==
    /\ phase \in {"Constructed", "Fitted"}
    /\ op \notin {"GMM2", "GMM2 threw"}
    /\ \E g \in Indeterminate :
          \E m \in {constructLoop(Model([ci \in Comp |-> Fill33(FromInt(g))],
                                        [ci \in Comp |-> FromInt(g)]), 0)} :
              /\ inverseCovs2' = m.inverseCovs
              /\ covDeterms2'  = m.covDeterms
              /\ cov' = m.cov
              /\ op' = IF m.failed THEN "GMM2 threw" ELSE "GMM2"
    /\ UNCHANGED <<coefs, mean, cache, accum, phase, arg, passSamples, before, added, threads>>

\* mutant: sampleCounts is not reset
initLearningKeepsCounts ==
    /\ phase \in {"Constructed", "InPass", "Fitted"}
    /\ op \notin {"GMM2", "GMM2 threw"}
    /\ sums'         = [ci \in Comp |-> Fill3(0)]
    /\ prods'        = [ci \in Comp |-> Fill33(0)]
    /\ totalSampleCount' = 0
    /\ phase' = "InPass"
    /\ op' = "initLearning"
    /\ passSamples' = EmptyBag
    /\ before' = IF phase = "InPass" THEN before ELSE DensityTable
    /\ UNCHANGED <<params, cache, cache2, sampleCounts, arg, added, threads>>

(***************************************************************************)
(* GMM::initLearning                                                       *)
(***************************************************************************)
initLearning ==
    /\ phase \in {"Constructed", "InPass", "Fitted"}
    /\ op \notin {"GMM2", "GMM2 threw"}
    /\ sums'         = [ci \in Comp |-> Fill3(0)]
    /\ prods'        = [ci \in Comp |-> Fill33(0)]
    /\ sampleCounts' = [ci \in Comp |-> 0]
    /\ totalSampleCount' = 0
    /\ phase' = "InPass"
    /\ op' = "initLearning"
    /\ passSamples' = EmptyBag
    /\ before' = IF phase = "InPass" THEN before ELSE DensityTable
    /\ UNCHANGED <<params, cache, cache2, arg, added, threads>>

\* sums[ci][k] += color[k]
SumsPlus(ci, color) == [sums EXCEPT ![ci] = [k \in Dim |-> @[k] + color[k]]]

\* mutant: prods[ci][r][k] += color[r] * color[r]
ProdsPlusSquares(ci, color) ==
    [prods EXCEPT ![ci] = [r \in Dim |-> [k \in Dim |-> @[r][k] + color[r] * color[r]]]]

\* prods[ci][r][k] += color[r] * color[k]
ProdsPlus(ci, color) ==
    [prods EXCEPT ![ci] = [r \in Dim |-> [k \in Dim |-> @[r][k] + color[r] * color[k]]]]

\* mutant: sums[0] for sums[ci]
addSampleFirstSums(ci, color) ==
    /\ phase = "InPass"
    /\ added < MaxSamples
    /\ sums'  = SumsPlus(0, color)
    /\ prods' = ProdsPlus(ci, color)
    /\ sampleCounts' = [sampleCounts EXCEPT ![ci] = @ + 1]
    /\ totalSampleCount' = totalSampleCount + 1
    /\ op' = "addSample"
    /\ passSamples' = passSamples (+) SetToBag({<<ci, color>>})
    /\ added' = added + 1
    /\ UNCHANGED <<params, cache, cache2, phase, arg, before, threads>>

(***************************************************************************)
(* GMM::addSample                                                          *)
(***************************************************************************)
addSample(ci, color) ==
    /\ phase = "InPass"
    /\ added < MaxSamples
    /\ sums'  = SumsPlus(ci, color)
    /\ prods' = ProdsPlus(ci, color)
    /\ sampleCounts' = [sampleCounts EXCEPT ![ci] = @ + 1]
    /\ totalSampleCount' = totalSampleCount + 1
    /\ op' = "addSample"
    /\ passSamples' = passSamples (+) SetToBag({<<ci, color>>})
    /\ added' = added + 1
    /\ UNCHANGED <<params, cache, cache2, phase, arg, before, threads>>

(***************************************************************************)
(* GMM::endLearning                                                        *)
(***************************************************************************)
endLearning ==
    /\ phase = "InPass"
    /\ \E m \in {endLearningLoop(Model(inverseCovs, covDeterms), 0)} :
           /\ coefs' = m.coefs
           /\ mean'  = m.mean
           /\ cov'   = m.cov
           /\ inverseCovs' = m.inverseCovs
           /\ covDeterms'  = m.covDeterms
           /\ phase' = IF m.failed THEN "Aborted" ELSE "Fitted"
    /\ op' = "endLearning"
    /\ before' = <<>>
    /\ UNCHANGED <<accum, cache2, arg, passSamples, added, threads>>

Next ==
    \/ initLearning
    \/ \E ci \in TargetComps, color \in Colors : addSample(ci, color)
    \/ endLearning
    \/ Construct2

Spec == Init /\ [][Next]_vars

(***************************************************************************)
(* calcInverseCovAndDeterm called twice on one component.  The component   *)
(* has positive weight and a stored covariance drawn from StartCovs; arg   *)
(* holds the arguments <<ci, singularFix>> of both calls.                  *)
(***************************************************************************)
StartDiag == {<<-1, 1000>>, Zero, <<1, 100>>, <<1, 4>>}
StartOff  == {Zero, <<1, 8>>}
StartCovs ==
    {[i \in Flat |-> CASE i = 0 -> a [] i = 4 -> b [] i = 8 -> c
                       [] i \in {1, 3} -> o [] OTHER -> Zero] :
        a \in StartDiag, b \in StartDiag, c \in StartDiag, o \in StartOff}

InitCache ==
    /\ \E ci \in Comp, c \in StartCovs, fix \in {ConstructFix, EndLearningFix} :
          /\ coefs = [cj \in Comp |-> IF cj = ci THEN One ELSE Zero]
          /\ cov   = [cj \in Comp |-> IF cj = ci THEN c ELSE Fill9(Zero)]
          /\ arg   = <<ci, fix>>
    /\ mean  = [ci \in Comp |-> Fill3(Zero)]
    /\ inverseCovs = [ci \in Comp |-> Fill33(Zero)]
    /\ covDeterms  = [ci \in Comp |-> Zero]
    /\ sums         = [ci \in Comp |-> Fill3(0)]
    /\ prods        = [ci \in Comp |-> Fill33(0)]
    /\ sampleCounts = [ci \in Comp |-> 0]
    /\ totalSampleCount = 0
    /\ inverseCovs2 = <<>>
    /\ covDeterms2  = <<>>
    /\ phase = "Cache"
    /\ op = "start"
    /\ passSamples = EmptyBag
    /\ before = <<>>
    /\ added = 0
    /\ threads = <<>>

RecomputeCache ==
    /\ phase = "Cache"
    /\ op \in {"start", "calc1"}
    /\ \E m \in {calcInverseCovAndDeterm(Model(inverseCovs, covDeterms), arg[1], arg[2])} :
           /\ cov' = m.cov
           /\ inverseCovs' = m.inverseCovs
           /\ covDeterms'  = m.covDeterms
           /\ op' = IF m.failed THEN "threw" ELSE IF op = "start" THEN "calc1" ELSE "calc2"
    /\ UNCHANGED <<coefs, mean, accum, cache2, phase, arg, passSamples, before, added,
                   threads>>

NextCache == RecomputeCache

SpecCache == InitCache /\ [][NextCache]_vars

(***************************************************************************)
(* addSample called from two threads, each for its own component, after    *)
(* initLearning.  No statement of addSample is atomic or ordered against   *)
(* the other thread.  The statements on sums[ci], prods[ci] and            *)
(* sampleCounts[ci] touch memory of the thread's own component only, so    *)
(* each is one step; totalSampleCount++ is shared and is a load into the   *)
(* thread's register followed by a store.                                  *)
(***************************************************************************)
Threads == {1, 2}
ThreadColors == {ColorSeq[2], ColorSeq[3]}

InitConc ==
    /\ coefs = [ci \in Comp |-> Zero]
    /\ mean  = [ci \in Comp |-> Fill3(Zero)]
    /\ cov   = [ci \in Comp |-> Fill9(Zero)]
    /\ inverseCovs = [ci \in Comp |-> Fill33(Zero)]
    /\ covDeterms  = [ci \in Comp |-> Zero]
    /\ sums         = [ci \in Comp |-> Fill3(0)]
    /\ prods        = [ci \in Comp |-> Fill33(0)]
    /\ sampleCounts = [ci \in Comp |-> 0]
    /\ totalSampleCount = 0
    /\ inverseCovs2 = <<>>
    /\ covDeterms2  = <<>>
    /\ phase = "InPass"
    /\ op = "initLearning"
    /\ arg = <<>>
    /\ passSamples = EmptyBag
    /\ before = <<>>
    /\ added = 0
    /\ \E c1 \in Comp, c2 \in Comp :
          /\ c1 # c2
          /\ threads = [t \in Threads |->
                          [pc |-> "idle", ci |-> IF t = 1 THEN c1 ELSE c2,
                           color |-> ColorSeq[1], reg |-> 0, done |-> <<>>]]

\* the call: addSample(ci, color) is entered
ThreadCall(t, color) ==
    /\ threads[t].pc = "idle"
    /\ Len(threads[t].done) < MaxCalls
    /\ threads' = [threads EXCEPT ![t].pc = "sums", ![t].color = color]
    /\ UNCHANGED <<params, cache, cache2, accum, phase, op, arg, passSamples, before, added>>

\* sums[ci][0] += color[0]; sums[ci][1] += color[1]; sums[ci][2] += color[2];
ThreadSums(t) ==
    /\ threads[t].pc = "sums"
    /\ sums' = SumsPlus(threads[t].ci, threads[t].color)
    /\ threads' = [threads EXCEPT ![t].pc = "prods"]
    /\ UNCHANGED <<params, cache, cache2, prods, sampleCounts, totalSampleCount, phase, op,
                   arg, passSamples, before, added>>

\* the nine statements prods[ci][r][k] += color[r] * color[k];
ThreadProds(t) ==
    /\ threads[t].pc = "prods"
    /\ prods' = ProdsPlus(threads[t].ci, threads[t].color)
    /\ threads' = [threads EXCEPT ![t].pc = "count"]
    /\ UNCHANGED <<params, cache, cache2, sums, sampleCounts, totalSampleCount, phase, op,
                   arg, passSamples, before, added>>

\* sampleCounts[ci]++;
ThreadCount(t) ==
    /\ threads[t].pc = "count"
    /\ sampleCounts' = [sampleCounts EXCEPT ![threads[t].ci] = @ + 1]
    /\ threads' = [threads EXCEPT ![t].pc = "load"]
    /\ UNCHANGED <<params, cache, cache2, sums, prods, totalSampleCount, phase, op, arg,
                   passSamples, before, added>>

\* totalSampleCount++; the load
ThreadLoad(t) ==
    /\ threads[t].pc = "load"
    /\ threads' = [threads EXCEPT ![t].pc = "store", ![t].reg = totalSampleCount]
    /\ UNCHANGED <<params, cache, cache2, accum, phase, op, arg, passSamples, before, added>>

\* totalSampleCount++; the store, and the return
ThreadStore(t) ==
    /\ threads[t].pc = "store"
    /\ totalSampleCount' = threads[t].reg + 1
    /\ threads' = [threads EXCEPT ![t].pc = "idle",
                                  ![t].done = Append(@, threads[t].color)]
    /\ UNCHANGED <<params, cache, cache2, sums, prods, sampleCounts, phase, op, arg,
                   passSamples, before, added>>

NextConc ==
    \E t \in Threads :
        \/ \E color \in ThreadColors : ThreadCall(t, color)
        \/ ThreadSums(t)
        \/ ThreadProds(t)
        \/ ThreadCount(t)
        \/ ThreadLoad(t)
        \/ ThreadStore(t)

SpecConc == InitConc /\ [][NextConc]_vars

(***************************************************************************)
(* Properties.                                                             *)
(***************************************************************************)
Queryable == phase \in {"Constructed", "Fitted"}
Active(ci) == RGt(coefs[ci], Zero)

RECURSIVE ActiveWeightSum(_)
ActiveWeightSum(ci) ==
    IF ci = componentsCount THEN Zero
    ELSE RAdd(IF sampleCounts[ci] > 0 THEN coefs[ci] ELSE Zero, ActiveWeightSum(ci + 1))

\* C1: after initLearning, addSample (at least once) and endLearning, every
\* weight is sampleCounts[ci] / totalSampleCount, a component without samples
\* has weight 0, and the weights of the components with samples sum to 1.
C1_WeightsAreFractions ==
    (phase = "Fitted" /\ totalSampleCount > 0) =>
        /\ \A ci \in Comp :
              /\ RMul(coefs[ci], FromInt(totalSampleCount)) = FromInt(sampleCounts[ci])
              /\ (sampleCounts[ci] = 0 => coefs[ci] = Zero)
        /\ ActiveWeightSum(0) = One

C1_Witness ==
    /\ phase = "Fitted"
    /\ sampleCounts[1] = 1 /\ sampleCounts[3] = 2 /\ sampleCounts[0] = 0
    /\ coefs[1] = <<1, 3>> /\ coefs[3] = <<2, 3>>

\* cov9 (row major) times inv is the identity matrix
IsInverse(cov9, inv) ==
    \A r \in Dim, k \in Dim :
        RAdd(RAdd(RMul(cov9[3 * r], inv[0][k]), RMul(cov9[3 * r + 1], inv[1][k])),
             RMul(cov9[3 * r + 2], inv[2][k]))
          = IF r = k THEN One ELSE Zero

\* C2: whenever the model may be queried, every component of positive weight
\* has a cached determinant equal to the determinant of the stored covariance
\* and above machine epsilon, a cached inverse that is the inverse of the
\* stored covariance, and a density evaluation whose assertion holds.
C2_CacheMatchesBuffer ==
    Queryable =>
        \A ci \in Comp : Active(ci) =>
            /\ covDeterms[ci] = Determinant(cov[ci])
            /\ IsInverse(cov[ci], inverseCovs[ci])
            /\ GtEpsilon(covDeterms[ci])
            /\ \A color \in QueryColors : ComponentDensity(ci, color) # AssertFailed

\* a refit model with a regularized component whose covariance is not diagonal
C2_Witness ==
    /\ phase = "Fitted"
    /\ Active(1)
    /\ sampleCounts[1] = 3
    /\ cov[1][1] # Zero

\* C3: endLearning never fails the singularity assertion: it completes, and
\* every component that received a sample, whatever the samples, ends with a
\* determinant above machine epsilon.
C3_RegularizedDeterminant ==
    /\ phase # "Aborted"
    /\ phase = "Fitted" =>
          \A ci \in Comp : sampleCounts[ci] > 0 => GtEpsilon(covDeterms[ci])

\* identical samples: the all-zero covariance regularized to diag(0.01)
C3_Witness ==
    /\ phase = "Fitted"
    /\ sampleCounts[3] = 3
    /\ cov[3] = [i \in Flat |-> IF i \in {0, 4, 8} THEN <<1, 100>> ELSE Zero]
    /\ covDeterms[3] = <<1, 1000000>>

\* C5 as stated: a second model constructed from the buffer of a model that
\* completed endLearning has, for every component, the cached determinant and
\* the cached inverse of the original.
C5_Original ==
    (phase = "Fitted" /\ op \in {"GMM2", "GMM2 threw"}) =>
        /\ op = "GMM2"
        /\ \A ci \in Comp :
              covDeterms2[ci] = covDeterms[ci] /\ inverseCovs2[ci] = inverseCovs[ci]

\* C5 amended: the construction succeeds; the second model shares weight and
\* mean (the buffer), has for every component of positive weight the cached
\* determinant and inverse of the original, and gives the same density for
\* every component and colour.
C5_RoundTrip ==
    (phase = "Fitted" /\ op \in {"GMM2", "GMM2 threw"}) =>
        /\ op = "GMM2"
        /\ \A ci \in Comp : Active(ci) =>
              covDeterms2[ci] = covDeterms[ci] /\ inverseCovs2[ci] = inverseCovs[ci]
        /\ \A ci \in Comp, color \in QueryColors :
              DensityOn(inverseCovs2, covDeterms2, ci, color) = ComponentDensity(ci, color)

\* the copy of a model with a regularized and an inactive component
C5_Witness ==
    /\ phase = "Fitted" /\ op = "GMM2"
    /\ Active(1) /\ ~ Active(3)
    /\ cov[1][0] = <<1, 100>>
    /\ covDeterms2[1] = <<1, 1000000>>
    /\ \E color \in QueryColors : ComponentDensity(1, color) > 0

\* C6: whichComponent returns a component of maximal density, the lowest
\* index among those of maximal density, and 0 when every density is 0.
C6_BestComponent ==
    phase # "Aborted" =>
        \A color \in QueryColors :
            \E k \in {whichComponent(color)} :
            \E d \in {<<ComponentDensity(0, color), ComponentDensity(1, color),
                         ComponentDensity(2, color), ComponentDensity(3, color),
                         ComponentDensity(4, color)>>} :
                /\ k \in Comp
                /\ \A ci \in Comp : d[ci + 1] <= d[k + 1]
                /\ \A ci \in Comp : ci < k => d[ci + 1] < d[k + 1]
                /\ (\A ci \in Comp : d[ci + 1] = 0) => k = 0

\* two components tie at a positive density and the lower index is returned
C6_Witness ==
    \E color \in QueryColors :
        /\ ComponentDensity(1, color) > 0
        /\ ComponentDensity(3, color) = ComponentDensity(1, color)
        /\ whichComponent(color) = 1

\* C7 as stated: endLearning with totalSampleCount = 0 does not complete.
C7_Original ==
    (op = "endLearning" /\ totalSampleCount = 0) => phase = "Aborted"

\* C7 amended: endLearning with totalSampleCount = 0 after initLearning (every
\* sampleCounts[ci] = 0) completes normally and sets every weight to 0; the
\* assertion totalSampleCount > 0 is evaluated only for a component with
\* samples.
C7_ZeroSamplesCompletes ==
    (op = "endLearning" /\ totalSampleCount = 0) =>
        /\ phase = "Fitted"
        /\ \A ci \in Comp : coefs[ci] = Zero

\* an empty pass after a pass that had fitted component 1
C7_Witness ==
    /\ op = "endLearning" /\ totalSampleCount = 0 /\ phase = "Fitted"
    /\ mean[1][0] = One
    /\ coefs[1] = Zero

(***************************************************************************)
(* The fit of a bag of samples, computed from the samples themselves: the  *)
(* count, the mean, and the covariance as the mean of the centred outer    *)
(* products, then regularized as calcInverseCovAndDeterm does.             *)
(***************************************************************************)
RECURSIVE BagSum(_, _, _, _)
BagSum(bag, ci, i, f) ==
    IF i > Len(ColorSeq) THEN Zero
    ELSE RAdd(RMul(FromInt(CopiesIn(<<ci, ColorSeq[i]>>, bag)), f[ColorSeq[i]]),
              BagSum(bag, ci, i + 1, f))

BagCount(bag, ci) == BagSum(bag, ci, 1, [x \in Colors |-> One])[1]
BagMean(bag, ci) ==
    [k \in Dim |->
        RMul(BagSum(bag, ci, 1, [x \in Colors |-> FromInt(x[k])]),
             <<1, BagCount(bag, ci)>>)]
BagCov(bag, ci) ==
    LET mu == BagMean(bag, ci)
    IN  [i \in Flat |->
            RMul(BagSum(bag, ci, 1, [x \in Colors |->
                     RMul(RSub(FromInt(x[i \div 3]), mu[i \div 3]),
                          RSub(FromInt(x[i % 3]), mu[i % 3]))]),
                 <<1, BagCount(bag, ci)>>)]
BagStoredCov(bag, ci) ==
    LET c == BagCov(bag, ci)
    IN  IF AtOrBelowFloor(Determinant(c))
        THEN [i \in Flat |-> IF i \in {0, 4, 8} THEN RAdd(c[i], <<1, 100>>) ELSE c[i]]
        ELSE c

AccumulatorsZero ==
    /\ \A ci \in Comp : sampleCounts[ci] = 0
    /\ \A ci \in Comp, k \in Dim : sums[ci][k] = 0
    /\ \A ci \in Comp, r \in Dim, k \in Dim : prods[ci][r][k] = 0
    /\ totalSampleCount = 0

\* C9: initLearning leaves every accumulator at 0 (so a second call changes
\* nothing), and what endLearning stores is the fit of the samples added
\* since the last initLearning alone: every weight, and the mean, covariance
\* and cache of every component that received one of them.
C9_PassDependsOnItsSamplesOnly ==
    /\ op = "initLearning" => AccumulatorsZero
    /\ phase = "Fitted" =>
          \A ci \in Comp :
              LET n == BagCount(passSamples, ci) IN
              /\ coefs[ci] = IF n = 0 THEN Zero
                              ELSE Norm(n, BagCardinality(passSamples))
              /\ n > 0 =>
                    /\ mean[ci] = BagMean(passSamples, ci)
                    /\ cov[ci] = BagStoredCov(passSamples, ci)
                    /\ covDeterms[ci] = Determinant(cov[ci])
                    /\ IsInverse(cov[ci], inverseCovs[ci])

\* a second pass over a model fitted by an earlier, different pass: component
\* 1 keeps the mean of the first pass with weight 0, component 3 is refit
C9_Witness ==
    /\ phase = "Fitted"
    /\ BagCount(passSamples, 3) = 2 /\ BagCount(passSamples, 1) = 0
    /\ mean[1][0] = One /\ coefs[1] = Zero
    /\ mean[3][1] = <<1, 2>>

\* C10: addSample changes the accumulator of one component and the total
\* count only: the parameters, the cache and the accumulators of the other
\* components are unchanged; and between initLearning and endLearning the
\* density evaluator returns what it returned before the pass started.
C10_AddSampleFrame ==
    /\ [][op' = "addSample" =>
            /\ params' = params
            /\ cache' = cache
            /\ \E ci \in Comp : \A cj \in Comp \ {ci} :
                  /\ sums'[cj] = sums[cj]
                  /\ prods'[cj] = prods[cj]
                  /\ sampleCounts'[cj] = sampleCounts[cj]]_vars
    /\ [](phase = "InPass" => DensityTable = before)

\* a sample added while the model has a fitted component
C10_Witness ==
    /\ op = "addSample" /\ phase = "InPass"
    /\ Active(1) /\ sampleCounts[3] = 1
    /\ \E color \in QueryColors : ComponentDensity(1, color) > 0

\* C4 as stated: a second calcInverseCovAndDeterm with the same arguments
\* changes neither the stored covariance nor the cache, whatever the
\* covariance was.
C4_Original ==
    [][(op = "calc1" /\ op' = "calc2") => (cov' = cov /\ cache' = cache)]_vars

AboveFloor(dtrm) == ~ RLt(dtrm, DetFloor)

\* C4 amended: a second calcInverseCovAndDeterm with the same arguments
\* changes neither the stored covariance nor the cache when singularFix is 0
\* or the determinant cached by the first call is above the 1e-6 floor
\* (otherwise it adds singularFix to the diagonal once more).
C4_IdempotentAboveFloor ==
    [][(/\ op = "calc1" /\ op' = "calc2"
        /\ (~ RGt(arg[2], Zero) \/ AboveFloor(covDeterms[arg[1]])))
          => (cov' = cov /\ cache' = cache)]_vars

\* two calls with fix 0.01 on diag(0, 0, 1/4): regularized once
C4_Witness ==
    /\ op = "calc2"
    /\ arg[2] = EndLearningFix
    /\ cov[arg[1]] = [i \in Flat |-> CASE i \in {0, 4} -> <<1, 100>>
                                      [] i = 8 -> <<13, 50>> [] OTHER -> Zero]
    /\ covDeterms[arg[1]] = <<13, 500000>>

AllIdle == \A t \in Threads : threads[t].pc = "idle"

RECURSIVE SeqSum(_, _, _)
SeqSum(colors, r, k) ==
    IF colors = <<>> THEN 0
    ELSE (IF k < 0 THEN Head(colors)[r] ELSE Head(colors)[r] * Head(colors)[k])
         + SeqSum(Tail(colors), r, k)

\* what the calls of thread t leave in its component when run one after another
SequentialAccumulator(t) ==
    LET ci == threads[t].ci IN
    /\ sampleCounts[ci] = Len(threads[t].done)
    /\ \A r \in Dim : sums[ci][r] = SeqSum(threads[t].done, r, -1)
    /\ \A r \in Dim, k \in Dim : prods[ci][r][k] = SeqSum(threads[t].done, r, k)

CallsDone == Len(threads[1].done) + Len(threads[2].done)

\* C8 as stated: when the concurrent calls have returned, the accumulators
\* are those of the same calls run one after another, totalSampleCount
\* included.
C8_Original ==
    AllIdle =>
        /\ \A t \in Threads : SequentialAccumulator(t)
        /\ totalSampleCount = CallsDone

\* C8 amended: when the concurrent calls have returned, sums, prods and
\* sampleCounts of each component are those of the same calls run one after
\* another; totalSampleCount is shared by all components and unprotected,
\* and may have lost increments: it is at most the number of calls and at
\* least 1 once a call has returned.
C8_PerComponentOnly ==
    AllIdle =>
        /\ \A t \in Threads : SequentialAccumulator(t)
        /\ totalSampleCount <= CallsDone
        /\ CallsDone > 0 => totalSampleCount >= 1

\* both threads have returned from two calls and an increment was lost
C8_Witness ==
    /\ AllIdle
    /\ Len(threads[1].done) = 2 /\ Len(threads[2].done) = 2
    /\ totalSampleCount < 4

====
